---- MODULE Spec2Model ----
(***************************************************************************)
(* Model of src/script.js, the page script of the personal-trainer site.   *)
(*                                                                         *)
(* The file holds two generations of the same script, one after the other. *)
(* Loaded as one classic script, every function declared twice is bound to *)
(* its LATER declaration before any statement runs, and both               *)
(* DOMContentLoaded listeners (lines 6-14 and 273-281) run the             *)
(* initialisers, so every listener the later initialisers attach is        *)
(* attached twice.  Spec models the file as it is loaded: the form, the    *)
(* cards and the list selector.  SpecSelection, SpecMenu, SpecReveal and   *)
(* SpecPage model parts of the same file: the selector with everything     *)
(* that writes the program field, the mobile menu and in-page links next   *)
(* to the form, the scroll reveal, and the user's events on a page that    *)
(* lacks one of the elements the script looks up.  SpecBounded models the  *)
(* earlier submit handler (lines 176-241, the one with the 10-second abort *)
(* timer) run on its own, attached once, which is what the specification   *)
(* calls "the variant with the 10-second bound".                           *)
(*                                                                         *)
(* One action is one task of the event loop: an event dispatched to all of *)
(* its listeners, a timer callback, or the settling of a fetch together    *)
(* with the continuation of the async handler that awaits it.              *)
(***************************************************************************)
EXTENDS Naturals, Sequences, FiniteSets

VARIABLES
    btnText,      \* innerText of the submit button (of its .btn-text child)
    btnDisabled,  \* submitBtn.disabled
    btnOpacity,   \* submitBtn.style.opacity, "" while the script has not set it
    inflight,     \* suspended submit handlers, each awaiting its request
    reverts,      \* pending 3000 ms revert timers, in the order they were set
    aborts,       \* pending 10000 ms abort timers (ids of their handlers)
    overlays,     \* .form-success-overlay elements in the form: <<inactive, active>>
    fields,       \* current values of the form's fields
    active,       \* data-values of the .selector-item elements carrying class active
    highlight,    \* .contact-form carries class selection-highlight
    hlTimers,     \* pending highlight-removal timers
    scrolled,     \* the last window.scrollTo target, "none" before any
    posts,        \* POST requests issued so far
    submits,      \* submit events dispatched so far
    escaped,      \* an exception left a listener uncaught (or rejected a submit handler)
    navActive,    \* #main-nav carries class active
    toggleOpen,   \* #menu-toggle carries class open
    ariaExpanded, \* aria-expanded of #menu-toggle
    scrollLock,   \* document.body.style.overflow is 'hidden'
    toggleResult, \* what the last click on #menu-toggle did to the nav, "none" before any
    present,      \* the elements of Elements the page holds
    observed,     \* <<element, observer>>: the observer still observes the element
    inView,       \* the .reveal-scroll elements that intersect the viewport
    revealTimers, \* pending activation timers of initScrollReveal
    activations   \* per .reveal-scroll element, the classList.add('active') calls run

formVars == <<btnText, btnDisabled, btnOpacity, inflight, reverts, aborts, overlays, posts, submits, escaped>>
selVars == <<active, highlight, hlTimers, scrolled>>
menuVars == <<navActive, toggleOpen, ariaExpanded, scrollLock, toggleResult>>
revealVars == <<observed, inView, revealTimers, activations>>
vars == <<btnText, btnDisabled, btnOpacity, inflight, reverts, aborts, overlays, fields, active,
          highlight, hlTimers, scrolled, posts, submits, escaped,
          navActive, toggleOpen, ariaExpanded, scrollLock, toggleResult,
          present, observed, inView, revealTimers, activations>>

(***************************************************************************)
(* Bounds of the model.                                                    *)
(***************************************************************************)
MaxSubmits == 2
MaxHlTimers == 3
MaxReveal == 3

(***************************************************************************)
(* The page the script runs on.  The markup is not part of the repository: *)
(* HtmlLabel stands for the label the button has in the markup, Values for *)
(* the data-value attributes of the cards and list items (and the options  *)
(* of #program), NoValue for a missing or empty data-value and for the     *)
(* placeholder option #program shows by default.  #program is the one      *)
(* field the script itself names.                                          *)
(***************************************************************************)
HtmlLabel == "Send Inquiry"
SendingLabel == "Sending..."
InitializingLabel == "Initializing Protocol..."
ErrorLabel == "Error - Try Again"
TimeoutLabel == "Timeout - Try Again"

\* The elements whose absence the handlers have to cope with, and the
\* .reveal-scroll elements in document order.
Elements == {"submitBtn", "header", "contact", "form", "toggle"}
RevealEls == 1..MaxReveal

NoValue == ""
Values == {"strength", "mobility"}
DataValues == Values \cup {NoValue}
FieldNames == {"program"}
DefaultFields == [program |-> NoValue]
FieldDomain(f) == DataValues

\* Both DOMContentLoaded listeners run initContactForm, initProtocolSelection, ...
Registrations == 2
\* The delays of the revert timers and of the abort timers, in milliseconds.
RevertDelay == 3000
AbortDelay == 10000

\* The state the listeners start from, on a page that holds `page`.
InitOn(page) ==
    /\ present = page
    /\ btnText = HtmlLabel
    /\ btnDisabled = FALSE
    /\ btnOpacity = ""
    /\ inflight = {}
    /\ reverts = <<>>
    /\ aborts = {}
    /\ overlays = <<0, 0>>
    /\ fields = DefaultFields
    /\ active = {}
    /\ highlight = FALSE
    /\ hlTimers = 0
    /\ scrolled = "none"
    /\ posts = 0
    /\ submits = 0
    /\ escaped = FALSE
    /\ navActive = FALSE
    /\ toggleOpen = FALSE
    /\ ariaExpanded = FALSE
    /\ scrollLock = FALSE
    /\ toggleResult = "none"
    /\ observed = RevealEls \X (1..Registrations)
    /\ inView = {}
    /\ revealTimers = {}
    /\ activations = [e \in RevealEls |-> 0]

\* The page with every element the script looks for.
Init == InitOn(Elements)

(***************************************************************************)
(* initContactForm, lines 446-482: the submit listener.                    *)
(***************************************************************************)

\* The synchronous part of one listener, up to its await (lines 451-466).
\* st is the button and the requests as the listener finds them.  Without a
\* submit button, submitBtn is null and line 453 throws a TypeError outside the
\* try block.
submitListener(st, ev, reg) ==
    IF "submitBtn" \notin present
    THEN [st EXCEPT !.escaped = TRUE]
    ELSE [ text     |-> SendingLabel,
           disabled |-> TRUE,
           posts    |-> st.posts + 1,
           escaped  |-> st.escaped,
           inflight |-> st.inflight \cup
                          {[ ev |-> ev, reg |-> reg, stage |-> "fetch",
                             originalText |-> st.text,
                             formData |-> fields,
                             before |-> btnText ]} ]

\* The submit event reaches every attached listener in turn.
RECURSIVE dispatchSubmit(_, _, _)
dispatchSubmit(st, ev, reg) ==
    IF reg > Registrations THEN st
    ELSE dispatchSubmit(submitListener(st, ev, reg), ev, reg + 1)

\* A user can submit the form only through its enabled submit button, or, in a
\* form without one, from a field.
Submit ==
    /\ "submitBtn" \in present => ~btnDisabled
    /\ submits < MaxSubmits
    /\ LET st == dispatchSubmit([text |-> btnText, disabled |-> btnDisabled,
                                 posts |-> posts, escaped |-> escaped,
                                 inflight |-> inflight],
                                submits + 1, 1)
       IN  /\ btnText' = st.text
           /\ btnDisabled' = st.disabled
           /\ posts' = st.posts
           /\ escaped' = st.escaped
           /\ inflight' = st.inflight
    /\ submits' = submits + 1
    /\ UNCHANGED <<btnOpacity, reverts, aborts, overlays, fields>>
    /\ UNCHANGED selVars
    /\ UNCHANGED menuVars
    /\ UNCHANGED present
    /\ UNCHANGED revealVars

\* The statements of the try block that can throw (lines 461-474): the awaited
\* fetch and the throw for a response that is not ok.
tryCovers(site) == site \in {"fetch", "status"}

\* The timer record of the catch block's setTimeout (lines 476-479).
revertTimer(r) == [originalText |-> r.originalText, before |-> r.before,
                   delay |-> RevertDelay]

\* A throw at `site` in the handler r: the catch block (lines 474-480), or the
\* rejection of the handler's own promise when no try block encloses the site.
thrown(r, site, label) ==
    /\ inflight' = inflight \ {r}
    /\ IF tryCovers(site)
       THEN /\ btnText' = label
            /\ reverts' = Append(reverts, revertTimer(r))
            /\ escaped' = escaped
       ELSE /\ escaped' = TRUE
            /\ UNCHANGED <<btnText, reverts>>
    /\ UNCHANGED <<btnDisabled, btnOpacity, aborts, overlays, fields, posts, submits>>
    /\ UNCHANGED selVars
    /\ UNCHANGED menuVars
    /\ UNCHANGED present
    /\ UNCHANGED revealVars

\* showSuccessMessage (lines 484-497): one more overlay in the form, not yet active.
showSuccessMessage(ov) == <<ov[1] + 1, ov[2]>>

\* contactForm.reset(): every field back to its default value.
resetFields == DefaultFields

\* The fetch of handler r resolves with response.ok (lines 468-470).
ResponseOk(r) ==
    /\ r.stage = "fetch"
    /\ inflight' = inflight \ {r}
    /\ overlays' = showSuccessMessage(overlays)
    /\ fields' = resetFields
    /\ UNCHANGED <<btnText, btnDisabled, btnOpacity, reverts, aborts, posts, submits, escaped>>
    /\ UNCHANGED selVars
    /\ UNCHANGED menuVars
    /\ UNCHANGED present
    /\ UNCHANGED revealVars

\* The fetch resolves with a response that is not ok (lines 471-473, 474-480).
ResponseNotOk(r) ==
    /\ r.stage = "fetch"
    /\ thrown(r, "status", ErrorLabel)

\* The fetch rejects: the request never completes (lines 462, 474-480).
NetworkFailure(r) ==
    /\ r.stage = "fetch"
    /\ thrown(r, "fetch", ErrorLabel)

\* The callback of the oldest revert timer (lines 476-479).  All revert timers have
\* the same delay, so they fire in the order they were set.
revertCallback(t) ==
    /\ btnText' = t.originalText
    /\ btnDisabled' = FALSE

RevertTimer ==
    /\ reverts # <<>>
    /\ revertCallback(Head(reverts))
    /\ reverts' = Tail(reverts)
    /\ UNCHANGED <<btnOpacity, inflight, aborts, overlays, fields, posts, submits, escaped>>
    /\ UNCHANGED selVars
    /\ UNCHANGED menuVars
    /\ UNCHANGED present
    /\ UNCHANGED revealVars

\* The 10 ms timer of showSuccessMessage (line 496) for an overlay still in the form.
OverlayTimer ==
    /\ overlays[1] > 0
    /\ overlays' = <<overlays[1] - 1, overlays[2] + 1>>
    /\ UNCHANGED <<btnText, btnDisabled, btnOpacity, inflight, reverts, aborts, fields, posts, submits, escaped>>
    /\ UNCHANGED selVars
    /\ UNCHANGED menuVars
    /\ UNCHANGED present
    /\ UNCHANGED revealVars

\* The Close button of an overlay (line 492): removes its overlay, clears body overflow.
closeOverlay(ov, isActive) ==
    IF isActive THEN <<ov[1], ov[2] - 1>> ELSE <<ov[1] - 1, ov[2]>>

DismissOverlay ==
    /\ \E isActive \in BOOLEAN :
          /\ overlays[IF isActive THEN 2 ELSE 1] > 0
          /\ overlays' = closeOverlay(overlays, isActive)
    /\ scrollLock' = FALSE
    /\ UNCHANGED <<btnText, btnDisabled, btnOpacity, inflight, reverts, aborts, fields, posts, submits, escaped>>
    /\ UNCHANGED selVars
    /\ UNCHANGED <<navActive, toggleOpen, ariaExpanded, toggleResult>>
    /\ UNCHANGED present
    /\ UNCHANGED revealVars

\* An edit that reaches the payloads of the requests in flight.
EditField_live(f, v) ==
    /\ v # fields[f]
    /\ fields' = [fields EXCEPT ![f] = v]
    /\ inflight' = {[r EXCEPT !.formData = fields'] : r \in inflight}
    /\ UNCHANGED <<btnText, btnDisabled, btnOpacity, reverts, aborts, overlays,
                   posts, submits, escaped>>
    /\ UNCHANGED selVars
    /\ UNCHANGED menuVars
    /\ UNCHANGED present
    /\ UNCHANGED revealVars

\* The user types into a field or picks an option of #program directly; no
\* listener of the script is attached to either.
EditField(f, v) ==
    /\ v # fields[f]
    /\ fields' = [fields EXCEPT ![f] = v]
    /\ UNCHANGED formVars
    /\ UNCHANGED selVars
    /\ UNCHANGED menuVars
    /\ UNCHANGED present
    /\ UNCHANGED revealVars

(***************************************************************************)
(* initProtocolSelection, lines 303-351.                                   *)
(***************************************************************************)

\* updateProtocolSelection that scrolls and highlights whatever shouldScroll is.
updateProtocolSelection_scrolling(st, value, shouldScroll) ==
    [st EXCEPT !.program = value,
               !.active = {i \in DataValues : i = value},
               !.scrolled = "contact",
               !.highlight = TRUE,
               !.hlTimers = @ + 1]

\* updateProtocolSelection (lines 326-347) on the selection state st.  Without
\* #main-header, line 333 reads offsetHeight of null and throws.
updateProtocolSelection(st, value, shouldScroll) ==
    LET sel == [st EXCEPT !.program = value,
                          !.active = {i \in DataValues : i = value}]
        sc  == [sel EXCEPT !.scrolled = "contact"]
    IN  IF ~(shouldScroll /\ "contact" \in present) THEN sel
        ELSE IF "header" \notin present THEN [sel EXCEPT !.escaped = TRUE]
        ELSE IF "form" \notin present THEN sc
        ELSE [sc EXCEPT !.highlight = TRUE, !.hlTimers = @ + 1]

\* clickListener without the test of val.
clickListener_unguarded(st, val, shouldScroll) ==
    updateProtocolSelection(st, val, shouldScroll)

\* One click listener of a card or of a list item (lines 313-316, 320-323).
clickListener(st, val, shouldScroll) ==
    IF val # NoValue THEN updateProtocolSelection(st, val, shouldScroll) ELSE st

\* The click reaches every attached listener in turn.
RECURSIVE dispatchClick(_, _, _, _)
dispatchClick(st, val, shouldScroll, reg) ==
    IF reg > Registrations THEN st
    ELSE dispatchClick(clickListener(st, val, shouldScroll), val, shouldScroll, reg + 1)

selection == [program |-> fields.program, active |-> active, scrolled |-> scrolled,
              highlight |-> highlight, hlTimers |-> hlTimers, escaped |-> escaped]

Activate(val, fromCard, kind) ==
    /\ fromCard => hlTimers + Registrations <= MaxHlTimers
    /\ UNCHANGED <<btnText, btnDisabled, btnOpacity, inflight, reverts, aborts, overlays,
                   posts, submits>>
    /\ UNCHANGED menuVars
    /\ UNCHANGED present
    /\ UNCHANGED revealVars
    /\ LET st == dispatchClick(selection, val, fromCard, 1)
       IN  /\ fields' = [fields EXCEPT !.program = st.program]
           /\ active' = st.active
           /\ scrolled' = st.scrolled
           /\ highlight' = st.highlight
           /\ hlTimers' = st.hlTimers
           /\ escaped' = st.escaped

\* A click on a .program-card whose data-value is val.
ClickCard(val) == Activate(val, TRUE, "card")

\* A click on a .selector-item whose data-value is val.
ClickItem(val) == Activate(val, FALSE, "item")

\* The callback of a highlight timer (line 344).
HighlightTimer ==
    /\ hlTimers > 0
    /\ hlTimers' = hlTimers - 1
    /\ highlight' = FALSE
    /\ UNCHANGED formVars
    /\ UNCHANGED <<fields, active, scrolled>>
    /\ UNCHANGED menuVars
    /\ UNCHANGED present
    /\ UNCHANGED revealVars

(***************************************************************************)
(* initMobileMenu, lines 429-441, and initSmoothScroll, lines 395-424.     *)
(***************************************************************************)
menu == [nav |-> navActive, open |-> toggleOpen, aria |-> ariaExpanded,
         lock |-> scrollLock, scrolled |-> scrolled, escaped |-> escaped]

\* A listener that engages the scroll lock whichever way the menu goes.
menuToggleListener_locking(m) ==
    LET isOpen == ~m.nav
    IN  [m EXCEPT !.nav = isOpen, !.open = isOpen, !.aria = isOpen, !.lock = TRUE]

\* One click listener of #menu-toggle (lines 435-440).
menuToggleListener(m) ==
    LET isOpen == ~m.nav
    IN  [m EXCEPT !.nav = isOpen, !.open = isOpen, !.aria = isOpen, !.lock = isOpen]

\* The click reaches every attached listener in turn.
RECURSIVE dispatchToggle(_, _)
dispatchToggle(m, reg) ==
    IF reg > Registrations THEN m
    ELSE dispatchToggle(menuToggleListener(m), reg + 1)

\* A click on #menu-toggle; initMobileMenu attaches nothing when it is absent.
MenuToggleClick ==
    /\ "toggle" \in present
    /\ LET m == dispatchToggle(menu, 1)
       IN  /\ navActive' = m.nav
           /\ toggleOpen' = m.open
           /\ ariaExpanded' = m.aria
           /\ scrollLock' = m.lock
           /\ toggleResult' = IF m.nav # navActive THEN "flipped" ELSE "unchanged"
    /\ UNCHANGED formVars
    /\ UNCHANGED selVars
    /\ UNCHANGED <<fields, present>>
    /\ UNCHANGED revealVars

\* The elements in-page links point at: "#" is the bare href, "contact" is #contact.
AnchorTargets == {"#", "contact", "about"}
targetExists(target) == target = "contact" => "contact" \in present

\* One click listener of an a[href^="#"] (lines 397-422).
anchorListener(m, target) ==
    LET sc == [m EXCEPT !.scrolled = target]
    IN  IF target = "#" \/ ~targetExists(target) THEN m
        ELSE IF "header" \notin present THEN [m EXCEPT !.escaped = TRUE]
        ELSE IF ~sc.nav THEN sc
        ELSE IF "toggle" \notin present THEN [sc EXCEPT !.nav = FALSE, !.escaped = TRUE]
        ELSE [sc EXCEPT !.nav = FALSE, !.open = FALSE, !.aria = FALSE, !.lock = FALSE]

RECURSIVE dispatchAnchor(_, _, _)
dispatchAnchor(m, target, reg) ==
    IF reg > Registrations THEN m
    ELSE dispatchAnchor(anchorListener(m, target), target, reg + 1)

\* A click on an in-page link to target.
AnchorClick(target) ==
    /\ LET m == dispatchAnchor(menu, target, 1)
       IN  /\ navActive' = m.nav
           /\ toggleOpen' = m.open
           /\ ariaExpanded' = m.aria
           /\ scrollLock' = m.lock
           /\ scrolled' = m.scrolled
           /\ escaped' = m.escaped
    /\ UNCHANGED <<btnText, btnDisabled, btnOpacity, inflight, reverts, aborts, overlays,
                   posts, submits>>
    /\ UNCHANGED <<active, highlight, hlTimers, fields, toggleResult, present>>
    /\ UNCHANGED revealVars

(***************************************************************************)
(* initScrollReveal, lines 357-376.  Each of the Registrations observers   *)
(* watches every .reveal-scroll element.                                   *)
(***************************************************************************)
StaggerStep == 150

\* The elements of S in document order.
RECURSIVE inOrder(_)
inOrder(S) ==
    IF S = {} THEN <<>>
    ELSE LET e == CHOOSE x \in S : \A y \in S : x <= y
         IN  <<e>> \o inOrder(S \ {e})

\* Notifications that scheduled something so far: every one of them unobserved
\* at least one element.
batch == Cardinality({e \in RevealEls : <<e, 1>> \notin observed})

\* The callback of observer reg (lines 364-372) on the entries that turned
\* intersecting: one timer per entry, staggered by its index.
revealCallback(entering, reg) ==
    LET appearing == inOrder({e \in entering : <<e, reg>> \in observed})
    IN  {[el |-> appearing[i], reg |-> reg, delay |-> (i - 1) * StaggerStep,
          batch |-> batch] : i \in 1..Len(appearing)}

\* A rendering update after which the elements of S intersect the viewport:
\* every observer is told of the elements it observes whose state changed.
Intersect(S) ==
    /\ S # inView
    /\ inView' = S
    /\ revealTimers' = revealTimers \cup
                         UNION {revealCallback(S \ inView, reg) : reg \in 1..Registrations}
    /\ observed' = {o \in observed : o[1] \notin S \ inView}
    /\ UNCHANGED activations
    /\ UNCHANGED formVars
    /\ UNCHANGED selVars
    /\ UNCHANGED menuVars
    /\ UNCHANGED <<fields, present>>

\* Timers run in the order of their due times; equal due times, in the order
\* they were set.
revealDue(t) ==
    \A u \in revealTimers \ {t} :
        /\ u.batch = t.batch =>
             ~(u.delay < t.delay \/ (u.delay = t.delay /\ u.reg < t.reg))
        /\ u.batch < t.batch => u.delay > t.delay

\* A stagger timer fires (line 369).
RevealTimer(t) ==
    /\ revealDue(t)
    /\ revealTimers' = revealTimers \ {t}
    /\ activations' = [activations EXCEPT ![t.el] = @ + 1]
    /\ UNCHANGED <<observed, inView>>
    /\ UNCHANGED formVars
    /\ UNCHANGED selVars
    /\ UNCHANGED menuVars
    /\ UNCHANGED <<fields, present>>

(***************************************************************************)
(* The earlier initContactForm, lines 176-241, attached once: the submit   *)
(* handler with the 10-second abort timer.                                 *)
(***************************************************************************)

\* The synchronous part of the listener, up to its await (lines 181-206).
submitListenerBounded(st, ev, reg) ==
    [ text     |-> InitializingLabel,
      disabled |-> TRUE,
      opacity  |-> "0.7",
      posts    |-> st.posts + 1,
      aborts   |-> st.aborts \cup {[ev |-> ev, reg |-> reg, delay |-> AbortDelay]},
      inflight |-> st.inflight \cup
                     {[ ev |-> ev, reg |-> reg, stage |-> "fetch",
                        originalText |-> st.text,
                        formData |-> fields,
                        before |-> btnText ]} ]

SubmitBounded ==
    /\ ~btnDisabled
    /\ submits < MaxSubmits
    /\ LET st == submitListenerBounded([text |-> btnText, disabled |-> btnDisabled,
                                        posts |-> posts, aborts |-> aborts,
                                        inflight |-> inflight],
                                       submits + 1, 1)
       IN  /\ btnText' = st.text
           /\ btnDisabled' = st.disabled
           /\ btnOpacity' = st.opacity
           /\ posts' = st.posts
           /\ aborts' = st.aborts
           /\ inflight' = st.inflight
    /\ submits' = submits + 1
    /\ UNCHANGED <<reverts, overlays, fields, escaped>>
    /\ UNCHANGED selVars
    /\ UNCHANGED menuVars
    /\ UNCHANGED present
    /\ UNCHANGED revealVars

\* A clearTimeout that leaves the timer set.
clearTimeout_kept(r) == aborts

\* clearTimeout(timeoutId) of handler r (lines 208 and 224).
clearTimeout(r) == aborts \ {[ev |-> r.ev, reg |-> r.reg, delay |-> AbortDelay]}

\* The statements of the try block that can throw (lines 198-223): the awaited
\* fetch, the awaited response.json() and the throw that follows it.
tryCoversBounded(site) == site \in {"fetch", "json", "status"}

\* catchLabel without the test of error.name.
catchLabel_generic(name) == ErrorLabel

\* The label the catch block picks from the name of what was thrown (lines 228-232).
catchLabel(name) == IF name = "AbortError" THEN TimeoutLabel ELSE ErrorLabel

\* A throw at `site` of a value named `name` in handler r (lines 223-239).
thrownBounded(r, site, name) ==
    /\ inflight' = inflight \ {r}
    /\ IF tryCoversBounded(site)
       THEN /\ aborts' = clearTimeout(r)
            /\ btnText' = catchLabel(name)
            /\ btnOpacity' = "1"
            /\ reverts' = Append(reverts, revertTimer(r))
            /\ escaped' = escaped
       ELSE /\ escaped' = TRUE
            /\ UNCHANGED <<aborts, btnText, btnOpacity, reverts>>
    /\ UNCHANGED <<btnDisabled, overlays, fields, posts, submits>>
    /\ UNCHANGED selVars
    /\ UNCHANGED menuVars
    /\ UNCHANGED present
    /\ UNCHANGED revealVars

\* The fetch resolves with response.ok (lines 208-218).
ResponseOkBounded(r) ==
    /\ r.stage = "fetch"
    /\ inflight' = inflight \ {r}
    /\ aborts' = clearTimeout(r)
    /\ overlays' = showSuccessMessage(overlays)
    /\ fields' = resetFields
    /\ btnText' = r.originalText
    /\ btnDisabled' = FALSE
    /\ btnOpacity' = "1"
    /\ UNCHANGED <<reverts, posts, submits, escaped>>
    /\ UNCHANGED selVars
    /\ UNCHANGED menuVars
    /\ UNCHANGED present
    /\ UNCHANGED revealVars

\* The fetch resolves with a response that is not ok: the abort timer is cleared
\* and the handler awaits response.json() (lines 208, 219-220).
ResponseNotOkBounded(r) ==
    /\ r.stage = "fetch"
    /\ inflight' = (inflight \ {r}) \cup {[r EXCEPT !.stage = "json"]}
    /\ aborts' = clearTimeout(r)
    /\ UNCHANGED <<btnText, btnDisabled, btnOpacity, reverts, overlays, fields, posts, submits, escaped>>
    /\ UNCHANGED selVars
    /\ UNCHANGED menuVars
    /\ UNCHANGED present
    /\ UNCHANGED revealVars

\* response.json() resolves, with or without an error field: throw new Error(...)
\* (line 221).
JsonParsedBounded(r, hasError) ==
    /\ r.stage = "json"
    /\ thrownBounded(r, "status", "Error")

\* response.json() rejects: the body is no JSON (line 220).
JsonFailsBounded(r) ==
    /\ r.stage = "json"
    /\ thrownBounded(r, "json", "SyntaxError")

\* The fetch rejects on its own: the request never completes (line 199).
NetworkFailureBounded(r) ==
    /\ r.stage = "fetch"
    /\ thrownBounded(r, "fetch", "TypeError")

\* The abort timer of handler r fires (line 196): controller.abort() rejects the
\* pending fetch with an AbortError, and does nothing once the fetch has settled.
AbortTimerBounded(t) ==
    /\ t \in aborts
    /\ \/ \E r \in inflight :
             /\ r.ev = t.ev /\ r.reg = t.reg /\ r.stage = "fetch"
             /\ thrownBounded(r, "fetch", "AbortError")
       \/ /\ ~ \E r \in inflight : r.ev = t.ev /\ r.reg = t.reg /\ r.stage = "fetch"
          /\ aborts' = aborts \ {t}
          /\ UNCHANGED <<btnText, btnDisabled, btnOpacity, inflight, reverts, overlays, fields,
                         posts, submits, escaped>>
          /\ UNCHANGED selVars
          /\ UNCHANGED menuVars
          /\ UNCHANGED present
          /\ UNCHANGED revealVars
    /\ UNCHANGED present
    /\ UNCHANGED revealVars

\* The Close button of the earlier overlay (line 255): removes its overlay only.
DismissOverlayBounded ==
    /\ \E isActive \in BOOLEAN :
          /\ overlays[IF isActive THEN 2 ELSE 1] > 0
          /\ overlays' = closeOverlay(overlays, isActive)
    /\ UNCHANGED <<btnText, btnDisabled, btnOpacity, inflight, reverts, aborts, fields, posts, submits, escaped>>
    /\ UNCHANGED selVars
    /\ UNCHANGED menuVars
    /\ UNCHANGED present
    /\ UNCHANGED revealVars

NextBounded ==
    \/ SubmitBounded
    \/ \E r \in inflight : ResponseOkBounded(r)
    \/ \E r \in inflight : ResponseNotOkBounded(r)
    \/ \E r \in inflight : \E hasError \in BOOLEAN : JsonParsedBounded(r, hasError)
    \/ \E r \in inflight : JsonFailsBounded(r)
    \/ \E r \in inflight : NetworkFailureBounded(r)
    \/ \E t \in aborts : AbortTimerBounded(t)
    \/ RevertTimer
    \/ OverlayTimer
    \/ DismissOverlayBounded
    \/ \E f \in FieldNames : \E v \in FieldDomain(f) : EditField(f, v)

SpecBounded == Init /\ [][NextBounded]_vars

Next ==
    \/ Submit
    \/ \E r \in inflight : ResponseOk(r)
    \/ \E r \in inflight : ResponseNotOk(r)
    \/ \E r \in inflight : NetworkFailure(r)
    \/ RevertTimer
    \/ OverlayTimer
    \/ DismissOverlay
    \/ \E f \in FieldNames : \E v \in FieldDomain(f) : EditField(f, v)
    \/ \E val \in DataValues : ClickCard(val)
    \/ \E val \in DataValues : ClickItem(val)
    \/ HighlightTimer

Spec == Init /\ [][Next]_vars

\* The cards, the list selector and the program field, with what else writes the
\* field: the user's edits and the form reset of a successful submit.
NextSelection ==
    \/ \E val \in DataValues : ClickCard(val)
    \/ \E val \in DataValues : ClickItem(val)
    \/ HighlightTimer
    \/ \E f \in FieldNames : \E v \in FieldDomain(f) : EditField(f, v)
    \/ Submit
    \/ \E r \in inflight : ResponseOk(r)

SpecSelection == Init /\ [][NextSelection]_vars

\* The mobile menu, the in-page links and the form, whose overlays share the
\* page's scroll lock with the menu.
NextMenu ==
    \/ MenuToggleClick
    \/ \E target \in AnchorTargets : AnchorClick(target)
    \/ Submit
    \/ \E r \in inflight : ResponseOk(r)
    \/ \E r \in inflight : ResponseNotOk(r)
    \/ \E r \in inflight : NetworkFailure(r)
    \/ RevertTimer
    \/ OverlayTimer
    \/ DismissOverlay

SpecMenu == Init /\ [][NextMenu]_vars

\* Scrolling past the reveal elements.
NextReveal ==
    \/ \E S \in SUBSET RevealEls : Intersect(S)
    \/ \E t \in revealTimers : RevealTimer(t)

SpecReveal == Init /\ [][NextReveal]_vars

\* The user's events on a page that lacks one of the elements.
InitPage == \E e \in Elements : InitOn(Elements \ {e})

NextPage ==
    \/ Submit
    \/ \E val \in DataValues : ClickCard(val)
    \/ \E val \in DataValues : ClickItem(val)
    \/ HighlightTimer
    \/ \E target \in AnchorTargets : AnchorClick(target)
    \/ MenuToggleClick

SpecPage == InitPage /\ [][NextPage]_vars

(***************************************************************************)
(* Properties.                                                             *)
(***************************************************************************)
OverlayCount == overlays[1] + overlays[2]
IsErrorShown == btnText \in {ErrorLabel, TimeoutLabel}
Failed(r) == ResponseNotOk(r) \/ NetworkFailure(r)

\* The presentation state of the button: its label and its enabled flag.
Presentation(text, disabled) ==
    CASE text = HtmlLabel /\ ~disabled -> "idle"
      [] text = SendingLabel /\ disabled -> "sending"
      [] text = ErrorLabel /\ disabled -> "error"
      [] OTHER -> "none"

\* C1: while a request of the form is in flight the submit button is disabled; the
\* step of a successful response leaves it enabled, and so does the step in which
\* the revert timer of a failed attempt fires.
C1_DisabledUntilOutcome ==
    [][ /\ inflight' # {} => btnDisabled'
        /\ (\E r \in inflight : ResponseOk(r)) => ~btnDisabled'
        /\ RevertTimer => ~btnDisabled' ]_vars

\* C2: the step in which a submission resolves successfully leaves every field at
\* its default and exactly one success overlay in the form; dismissing an overlay
\* removes it.
C2_ClearedAndOneOverlay ==
    [][ /\ (\E r \in inflight : ResponseOk(r))
            => (fields' = DefaultFields /\ OverlayCount' = 1)
        /\ DismissOverlay => OverlayCount' = OverlayCount - 1 ]_vars

\* C3: when the revert timer of a failed submission fires, the button gets the label
\* it had before that submit event and is enabled.
C3_RevertRoundTrips ==
    [][ RevertTimer => (btnText' = Head(reverts).before /\ ~btnDisabled') ]_vars

\* C4 (10-second variant): when the abort timer fires while its request has no
\* response, the request is aborted and the label becomes the timeout label, which is
\* not the generic error label; no other step produces the timeout label.
C4_TimeoutLabel ==
    [][ /\ TimeoutLabel # ErrorLabel
        /\ \A t \in aborts :
             (AbortTimerBounded(t)
                /\ \E r \in inflight : r.ev = t.ev /\ r.reg = t.reg /\ r.stage = "fetch")
             => /\ btnText' = TimeoutLabel
                /\ ~ \E r \in inflight' : r.ev = t.ev /\ r.reg = t.reg
        /\ \A r \in inflight :
             (\/ NetworkFailureBounded(r)
              \/ JsonFailsBounded(r)
              \/ \E hasError \in BOOLEAN : JsonParsedBounded(r, hasError))
             => btnText' = ErrorLabel
        /\ (btnText' = TimeoutLabel /\ btnText # TimeoutLabel)
             => \E t \in aborts : AbortTimerBounded(t) ]_vars

\* C4 witness: the second attempt was aborted by its timer: the button shows the
\* timeout label, which only the abort leaves, and waits for its revert timer.
C4_Witness ==
    /\ btnText = TimeoutLabel
    /\ btnDisabled
    /\ inflight = {}
    /\ aborts = {}
    /\ Len(reverts) = 1
    /\ submits = 2

\* C5: at most one request of the contact form is in flight.
C5_OneInFlight == Cardinality(inflight) <= 1

\* C6: the number of POSTs issued equals the number of submit events.
C6_OnePostPerSubmit == posts = submits

\* C7: the button is always idle, sending or error, and it changes only from idle to
\* sending on submit, from sending to idle on success, from sending to error on
\* failure and from error to idle when a revert timer fires.
C7_PresentationStates ==
    [][ LET a == Presentation(btnText, btnDisabled)
            b == Presentation(btnText', btnDisabled')
        IN  /\ b # "none"
            /\ \/ a = b
               \/ a = "idle" /\ b = "sending" /\ Submit
               \/ a = "sending" /\ b = "idle" /\ \E r \in inflight : ResponseOk(r)
               \/ a = "sending" /\ b = "error" /\ \E r \in inflight : Failed(r)
               \/ a = "error" /\ b = "idle" /\ RevertTimer ]_vars

\* C8: a click on a card or list item with data-value v in Values leaves #program at
\* v and exactly the list item of value v active; a click on one whose data-value is
\* missing or empty leaves the field and the active markers as they were.
C8_SelectorSync ==
    [][ \A v \in DataValues :
          (ClickCard(v) \/ ClickItem(v))
          => IF v \in Values
             THEN fields'.program = v /\ active' = {v} /\ Cardinality(active') = 1
             ELSE UNCHANGED <<fields, active>> ]_vars

\* C8 witness: a card or list item of value mobility was clicked after a submission:
\* the field and the one active marker, which only a click sets, carry its value.
C8_Witness ==
    /\ fields.program = "mobility"
    /\ active = {"mobility"}
    /\ posts > 0

\* C9: at most one list item is active, and an active one carries the current value
\* of #program.
C9_ActiveMatchesField ==
    /\ Cardinality(active) <= 1
    /\ \A v \in active : v = fields.program

\* C10: no exception leaves a submit handler, and an error label on the button has a
\* revert timer pending that will replace it.
C10_CaughtAndReverting ==
    /\ ~escaped
    /\ IsErrorShown => reverts # <<>>

\* C11: on a page that lacks one of the elements the handlers look for, no submit,
\* card click, list click, link click or menu click raises an error.
C11_AbsentElementsNoError == ~escaped

\* C12: a reveal element receives its activation at most once, whatever the
\* sequence of intersection events.
C12_ActivatedAtMostOnce == \A e \in RevealEls : activations[e] <= 1

\* C13: after a card activation the form keeps the highlight class for the full
\* duration measured from that activation: while all the timers set by the latest
\* activation are still pending (they are the last to fire), the class is on.
C13_HighlightFullDuration == hlTimers >= Registrations => highlight

C15_ToggleFlips == [][MenuToggleClick => navActive' = ~navActive]_vars

\* C16: activating a list item leaves the scroll position, the form's highlight,
\* the submit button and the mobile menu as they were (it may change only the
\* program field and the active markers), and a step that scrolls to the form or
\* turns the highlight on is a card activation.
C16_ItemFrame ==
    [][ /\ \A val \in DataValues :
             ClickItem(val) =>
                 /\ UNCHANGED <<scrolled, highlight, hlTimers>>
                 /\ UNCHANGED <<btnText, btnDisabled, btnOpacity>>
                 /\ UNCHANGED <<navActive, toggleOpen, ariaExpanded, scrollLock>>
        /\ (scrolled' # scrolled \/ hlTimers' > hlTimers \/ (highlight' /\ ~highlight))
             => \E val \in Values : ClickCard(val) ]_vars

\* A list item was activated on a page that no card activation has scrolled, and
\* the form carries no highlight.
C16_Witness ==
    /\ active # {}
    /\ scrolled = "none"
    /\ ~highlight /\ hlTimers = 0

\* C17: the payload of a request is the form's field values at its submit event,
\* and nothing changes it afterwards: every request in flight after a step was
\* either in flight before it, with the same payload, or is created by this
\* submit with the current field values.
C17_PayloadSnapshot ==
    [][\A r \in inflight' :
          \/ r \in inflight
          \/ Submit /\ r.formData = fields]_vars

\* A request is in flight whose payload differs from the fields as they are now.
C17_Witness == \E r \in inflight : r.formData # fields

\* C18: whenever an error-revert timer is pending, no request is in flight.
C18_NoRevertDuringRequest == reverts # <<>> => inflight = {}

\* C19: in the handler with the 10-second bound, an abort timer is pending only
\* while the fetch of its own attempt is unsettled: once the fetch has resolved or
\* rejected, no abort timer of that attempt is left to fire.
C19_AbortCancelled ==
    \A t \in aborts :
        \E r \in inflight : r.ev = t.ev /\ r.reg = t.reg /\ r.stage = "fetch"

\* A fetch has resolved with a response, its handler has not reached its outcome
\* yet, and no abort timer is pending.
C19_Witness ==
    /\ \E r \in inflight : r.stage = "json"
    /\ aborts = {}

====
